---- MODULE Spec2Model ----
(***************************************************************************)
(* Model of sitesgouv.py: the class AnalyseurDomainesGouvFr (loader and    *)
(* analyser) and the program main().                                       *)
(*                                                                         *)
(* A Python str is a sequence of code points (naturals in 0..255, the      *)
(* range of the latin-1 decoding of the source file).  Each string literal *)
(* of the source is written as the tuple of its code points, with the      *)
(* literal in the comment next to it.                                      *)
(***************************************************************************)
EXTENDS Integers, Sequences, FiniteSets

VARIABLES
  fichier,             \* lines of sitesgouv.txt, without their line terminator
  existe,              \* Path("sitesgouv.txt").exists()
  lisible,             \* open(...)/readlines() succeeds
  inscriptible,        \* open(fichier_sortie, 'w') and the writes succeed
  lignes_brutes,       \* self.lignes_brutes
  domaines,            \* self.domaines
  domaines_manquants,  \* self.domaines_manquants
  analyse,             \* <<>> or <<the dict returned by analyser()>>
  nb_chargements,      \* number of charger_domaines() calls that returned
  derniere,            \* the method that returned last
  pc,                  \* position of main()
  console,             \* what was printed, in order
  rapport_affiche,     \* <<>> or <<the report main() printed>>
  fichier_sortie,      \* <<>> or <<content of sitesgouv_rapport.txt>>
  code_sortie          \* <<>> while the process runs, then <<exit status>>

vars == <<fichier, existe, lisible, inscriptible, lignes_brutes, domaines,
          domaines_manquants, analyse, nb_chargements, derniere, pc, console,
          rapport_affiche, fichier_sortie, code_sortie>>

(***************************************************************************)
(* Bounds of the model.                                                    *)
(***************************************************************************)
MaxLignes == 2
MaxChargements == 2

Range(s) == {s[i] : i \in DOMAIN s}
Min(a, b) == IF a < b THEN a ELSE b

(***************************************************************************)
(* The str methods the program uses, on code points 0..255.                *)
(***************************************************************************)
\* str.isspace() of one character
isspace(c) == c \in {9, 10, 11, 12, 13, 28, 29, 30, 31, 32, 133, 160}

\* str.isprintable() of one character
isprintable(c) == ~(c \in 0..31 \/ c \in 127..160 \/ c = 173)

\* ligne.isspace(): non-empty and every character is whitespace
isspace_str(s) == Len(s) > 0 /\ \A i \in DOMAIN s : isspace(s[i])

\* str.lower()
lower_char(c) ==
  IF c \in 65..90 \/ c \in 192..214 \/ c \in 216..222 THEN c + 32 ELSE c

lower(s) == [i \in DOMAIN s |-> lower_char(s[i])]

RECURSIVE lstrip(_)
lstrip(s) == IF Len(s) > 0 /\ isspace(s[1]) THEN lstrip(Tail(s)) ELSE s

RECURSIVE rstrip(_)
rstrip(s) ==
  IF Len(s) > 0 /\ isspace(s[Len(s)]) THEN rstrip(SubSeq(s, 1, Len(s) - 1)) ELSE s

\* str.strip()
strip(s) == rstrip(lstrip(s))

\* s.startswith(p)
startswith(s, p) == Len(s) >= Len(p) /\ SubSeq(s, 1, Len(p)) = p

\* s.endswith(p)
endswith(s, p) == Len(s) >= Len(p) /\ SubSeq(s, Len(s) - Len(p) + 1, Len(s)) = p

\* sub in s
contains(s, sub) ==
  \E i \in 0..(Len(s) - Len(sub)) : SubSeq(s, i + 1, i + Len(sub)) = sub

\* s.replace(old, ''): leftmost non-overlapping occurrences, one pass
RECURSIVE replace_vide(_, _)
replace_vide(s, old) ==
  IF Len(s) < Len(old) THEN s
  ELSE IF SubSeq(s, 1, Len(old)) = old
       THEN replace_vide(SubSeq(s, Len(old) + 1, Len(s)), old)
       ELSE <<s[1]>> \o replace_vide(Tail(s), old)

\* s.split('\t')[0]: the text before the first tab
RECURSIVE avant_tab(_)
avant_tab(s) ==
  IF Len(s) = 0 \/ s[1] = 9 THEN <<>> ELSE <<s[1]>> \o avant_tab(Tail(s))

RECURSIVE jusqu_a_espace(_)
jusqu_a_espace(s) ==
  IF Len(s) = 0 \/ isspace(s[1]) THEN <<>> ELSE <<s[1]>> \o jusqu_a_espace(Tail(s))

\* s.split()[0]: the first run of non-whitespace characters
premier_mot(s) == jusqu_a_espace(lstrip(s))

\* ''.join(c for c in s if c.isprintable() and not c.isspace())
nettoyer(s) == SelectSeq(s, LAMBDA c : isprintable(c) /\ ~isspace(c))

\* str(i) for i >= 0
RECURSIVE str_int(_)
str_int(i) ==
  IF i < 10 THEN <<48 + i>> ELSE str_int(i \div 10) \o <<48 + (i % 10)>>

\* a < b for str: code point order, a proper prefix is smaller
RECURSIVE str_lt(_, _)
str_lt(a, b) ==
  IF Len(b) = 0 THEN FALSE
  ELSE IF Len(a) = 0 THEN TRUE
  ELSE IF a[1] # b[1] THEN a[1] < b[1]
  ELSE str_lt(Tail(a), Tail(b))

\* Faulty variant of sorted: descending order.
RECURSIVE sorted_decroissant(_)
sorted_decroissant(S) ==
  IF S = {} THEN <<>>
  ELSE LET m == CHOOSE x \in S : \A y \in S \ {x} : str_lt(y, x)
       IN <<m>> \o sorted_decroissant(S \ {m})

\* sorted(S) of a set of str
RECURSIVE sorted(_)
sorted(S) ==
  IF S = {} THEN <<>>
  ELSE LET m == CHOOSE x \in S : \A y \in S \ {x} : str_lt(x, y)
       IN <<m>> \o sorted(S \ {m})

(***************************************************************************)
(* charger_domaines                                                        *)
(***************************************************************************)
tld_valides ==
  << <<46,103,111,117,118,46,102,114>>,       \* '.gouv.fr'
     <<46,102,114>>,            \* '.fr'
     <<46,103,111,117,118,46,110,99>>,       \* '.gouv.nc'
     <<46,110,99>>,            \* '.nc'
     <<46,103,111,117,118,46,112,102>>,       \* '.gouv.pf'
     <<46,112,114,101,102,46,103,111,117,118,46,102,114>> >>  \* '.pref.gouv.fr'

\* ligne.split('\t')[0] if '\t' in ligne else ligne.split()[0], then .strip()
partie_domaine(ligne) ==
  strip(IF 9 \in Range(ligne) THEN avant_tab(ligne) ELSE premier_mot(ligne))

\* partie_domaine.lower().replace('www.', '') and the removal of invalid characters
normaliser(partie) == nettoyer(replace_vide(lower(partie), <<119,119,119,46>> (* 'www.' *)))

\* any(domaine.endswith(tld) for tld in tld_valides)
tld_accepte(domaine) == \E k \in DOMAIN tld_valides : endswith(domaine, tld_valides[k])

\* f"Ligne {i}: {ligne[:50]}..."
enregistrement(i, ligne) ==
  <<76,105,103,110,101,32>> (* 'Ligne ' *) \o str_int(i) \o <<58,32>> (* ': ' *) \o SubSeq(ligne, 1, Min(50, Len(ligne))) \o <<46,46,46>> (* '...' *)

\* Faulty variant of a_enregistrer: comment lines are recorded too.
a_enregistrer_sans_diese(ligne) ==
  Len(ligne) > 0 /\ ~isspace_str(ligne)

\* ligne and not ligne.startswith('#') and not ligne.isspace()
a_enregistrer(ligne) ==
  Len(ligne) > 0 /\ ~startswith(ligne, <<35>> (* '#' *)) /\ ~isspace_str(ligne)

\* Faulty variant of compter_lignes_brutes: comment lines are not counted.
compter_lignes_hors_commentaires(lignes) ==
  Cardinality({i \in DOMAIN lignes :
                 Len(strip(lignes[i])) > 0 /\ ~startswith(strip(lignes[i]), <<35>> (* '#' *))})

\* len([l for l in lignes if l.strip()])
compter_lignes_brutes(lignes) ==
  Cardinality({i \in DOMAIN lignes : Len(strip(lignes[i])) > 0})

\* One iteration of the loop over enumerate(lignes, 1); acc holds
\* ensemble_domaines and self.domaines_manquants.
traiter_ligne(acc, i, brute) ==
  LET ligne == strip(brute)
      partie == partie_domaine(ligne)
      domaine == normaliser(partie)
  IN IF Len(ligne) = 0 THEN acc
     ELSE IF Len(partie) = 0 THEN acc
     ELSE IF tld_accepte(domaine)
          THEN [acc EXCEPT !.ensemble = @ \cup {domaine}]
          ELSE IF a_enregistrer(ligne)
               THEN [acc EXCEPT !.manquants = Append(@, enregistrement(i, ligne))]
               ELSE acc

\* The loop over the first n lines, from an empty set and the list of records
\* the object already holds.
RECURSIVE boucle(_, _, _)
boucle(lignes, n, manquants) ==
  IF n = 0 THEN [ensemble |-> {}, manquants |-> manquants]
  ELSE traiter_ligne(boucle(lignes, n - 1, manquants), n, lignes[n])

(***************************************************************************)
(* analyser                                                                *)
(***************************************************************************)
mots_cles_ministere ==
  << <<97,103,114,105,99,117,108,116,117,114,101>>,  \* 'agriculture'
     <<99,117,108,116,117,114,101>>,  \* 'culture'
     <<100,101,102,101,110,115,101>>,  \* 'defense'
     <<101,100,117,99,97,116,105,111,110>>,  \* 'education'
     <<101,99,111,110,111,109,105,101>>,  \* 'economie'
     <<115,97,110,116,101>>,  \* 'sante'
     <<105,110,116,101,114,105,101,117,114>>,  \* 'interieur'
     <<106,117,115,116,105,99,101>>,  \* 'justice'
     <<116,114,97,118,97,105,108>>,  \* 'travail'
     <<101,110,118,105,114,111,110,110,101,109,101,110,116>>,  \* 'environnement'
     <<108,111,103,101,109,101,110,116>>,  \* 'logement'
     <<111,117,116,114,101,45,109,101,114>>,  \* 'outre-mer'
     <<102,111,110,99,116,105,111,110,45,112,117,98,108,105,113,117,101>>,  \* 'fonction-publique'
     <<115,112,111,114,116,115>>,  \* 'sports'
     <<98,117,100,103,101,116>> >>  \* 'budget'

mots_cles_region ==
  << <<97,108,115,97,99,101>>,  \* 'alsace'
     <<97,113,117,105,116,97,105,110,101>>,  \* 'aquitaine'
     <<98,114,101,116,97,103,110,101>>,  \* 'bretagne'
     <<99,111,114,115,101>>,  \* 'corse'
     <<110,111,114,109,97,110,100,105,101>>,  \* 'normandie'
     <<112,114,111,118,101,110,99,101>>,  \* 'provence'
     <<108,111,114,114,97,105,110,101>>,  \* 'lorraine'
     <<98,111,117,114,103,111,103,110,101>>,  \* 'bourgogne'
     <<99,101,110,116,114,101>>,  \* 'centre'
     <<97,117,118,101,114,103,110,101>>,  \* 'auvergne'
     <<102,114,97,110,99,104,101,45,99,111,109,116,101>>,  \* 'franche-comte'
     <<108,97,110,103,117,101,100,111,99>>,  \* 'languedoc'
     <<108,105,109,111,117,115,105,110>>,  \* 'limousin'
     <<109,105,100,105,45,112,121,114,101,110,101,101,115>>,  \* 'midi-pyrenees'
     <<112,105,99,97,114,100,105,101>>,  \* 'picardie'
     <<112,111,105,116,111,117,45,99,104,97,114,101,110,116,101,115>>,  \* 'poitou-charentes'
     <<114,104,111,110,101,45,97,108,112,101,115>>,  \* 'rhone-alpes'
     <<112,97,99,97>>,  \* 'paca'
     <<114,101,117,110,105,111,110>>,  \* 'reunion'
     <<103,117,97,100,101,108,111,117,112,101>>,  \* 'guadeloupe'
     <<109,97,114,116,105,110,105,113,117,101>>,  \* 'martinique'
     <<103,117,121,97,110,101>>,  \* 'guyane'
     <<105,108,101,100,101,102,114,97,110,99,101>> >>  \* 'iledefrance'

mots_cles_service ==
  << <<115,101,114,118,105,99,101,45,112,117,98,108,105,99>>,  \* 'service-public'
     <<105,109,112,111,116,115>>,  \* 'impots'
     <<100,111,117,97,110,101>>,  \* 'douane'
     <<108,101,103,105,102,114,97,110,99,101>>,  \* 'legifrance'
     <<100,97,116,97,46,103,111,117,118>>,  \* 'data.gouv'
     <<109,111,110,99,111,109,112,116,101,102,111,114,109,97,116,105,111,110>>,  \* 'moncompteformation'
     <<102,114,97,110,99,101,116,114,97,118,97,105,108>>,  \* 'francetravail'
     <<97,110,116,115>>,  \* 'ants'
     <<97,109,101,108,105>>,  \* 'ameli'
     <<112,111,108,101,45,101,109,112,108,111,105>> >>  \* 'pole-emploi'

domaines_critiques ==
  << <<101,99,111,110,111,109,105,101,46,103,111,117,118,46,102,114>>,  \* 'economie.gouv.fr'
     <<105,110,116,101,114,105,101,117,114,46,103,111,117,118,46,102,114>>,  \* 'interieur.gouv.fr'
     <<101,100,117,99,97,116,105,111,110,46,103,111,117,118,46,102,114>>,  \* 'education.gouv.fr'
     <<115,97,110,116,101,46,103,111,117,118,46,102,114>>,  \* 'sante.gouv.fr'
     <<100,101,102,101,110,115,101,46,103,111,117,118,46,102,114>>,  \* 'defense.gouv.fr'
     <<106,117,115,116,105,99,101,46,103,111,117,118,46,102,114>>,  \* 'justice.gouv.fr'
     <<116,114,97,118,97,105,108,46,103,111,117,118,46,102,114>>,  \* 'travail.gouv.fr'
     <<99,117,108,116,117,114,101,46,103,111,117,118,46,102,114>>,  \* 'culture.gouv.fr'
     <<97,103,114,105,99,117,108,116,117,114,101,46,103,111,117,118,46,102,114>>,  \* 'agriculture.gouv.fr'
     <<115,101,114,118,105,99,101,45,112,117,98,108,105,99,46,102,114>>,  \* 'service-public.fr'
     <<105,109,112,111,116,115,46,103,111,117,118,46,102,114>>,  \* 'impots.gouv.fr'
     <<102,114,97,110,99,101,116,114,97,118,97,105,108,46,102,114>>,  \* 'francetravail.fr'
     <<103,111,117,118,101,114,110,101,109,101,110,116,46,102,114>>,  \* 'gouvernement.fr'
     <<101,108,121,115,101,101,46,102,114>>,  \* 'elysee.fr'
     <<97,115,115,101,109,98,108,101,101,45,110,97,116,105,111,110,97,108,101,46,102,114>> >>  \* 'assemblee-nationale.fr'

\* any(mc in domaine for mc in mots_cles)
un_mot_cle(domaine, mots_cles) ==
  \E k \in DOMAIN mots_cles : contains(domaine, mots_cles[k])

\* 'developpement-durable' in domaine or 'ecologie.' in domaine
est_environnement(domaine) ==
  contains(domaine, <<100,101,118,101,108,111,112,112,101,109,101,110,116,45,100,117,114,97,98,108,101>> (* 'developpement-durable' *)) \/ contains(domaine, <<101,99,111,108,111,103,105,101,46>> (* 'ecologie.' *))

\* Faulty variant of categories: environment is left out of the set.
categories_sans_environnement(domaine) ==
  (IF un_mot_cle(domaine, mots_cles_ministere) THEN {"ministere"} ELSE {})
  \cup (IF un_mot_cle(domaine, mots_cles_region) THEN {"region"} ELSE {})
  \cup (IF un_mot_cle(domaine, mots_cles_service) THEN {"service"} ELSE {})
  \cup (IF contains(domaine, <<46,112,114,101,102,46>> (* '.pref.' *)) THEN {"prefecture"} ELSE {})

\* The set categories built for one domain.
categories(domaine) ==
  (IF un_mot_cle(domaine, mots_cles_ministere) THEN {"ministere"} ELSE {})
  \cup (IF un_mot_cle(domaine, mots_cles_region) THEN {"region"} ELSE {})
  \cup (IF un_mot_cle(domaine, mots_cles_service) THEN {"service"} ELSE {})
  \cup (IF contains(domaine, <<46,112,114,101,102,46>> (* '.pref.' *)) THEN {"prefecture"} ELSE {})
  \cup (IF est_environnement(domaine) THEN {"environnement"} ELSE {})

\* Faulty variant of maj_compteurs: the overlap test is a second "if" on
\* len(categories) >= 1 instead of an "elif" on len(categories) > 1.
maj_compteurs_cumul(a, cats) ==
  LET b == IF cats = {"ministere"}
           THEN [a EXCEPT !.ministere_uniquement = @ + 1]
           ELSE IF cats = {"region"}
           THEN [a EXCEPT !.region_uniquement = @ + 1]
           ELSE IF cats = {"service"}
           THEN [a EXCEPT !.service_uniquement = @ + 1]
           ELSE IF cats = {"prefecture"}
           THEN [a EXCEPT !.prefecture_uniquement = @ + 1]
           ELSE a
  IN IF Cardinality(cats) >= 1
     THEN [b EXCEPT !.nombre_chevauchement = @ + 1]
     ELSE b

\* The update of the counters for one domain.
maj_compteurs(a, cats) ==
  IF Cardinality(cats) = 1
  THEN LET categorie == CHOOSE c \in cats : TRUE
       IN IF categorie = "ministere"
          THEN [a EXCEPT !.ministere_uniquement = @ + 1]
          ELSE IF categorie = "region"
          THEN [a EXCEPT !.region_uniquement = @ + 1]
          ELSE IF categorie = "service"
          THEN [a EXCEPT !.service_uniquement = @ + 1]
          ELSE IF categorie = "prefecture"
          THEN [a EXCEPT !.prefecture_uniquement = @ + 1]
          ELSE a
  ELSE IF Cardinality(cats) > 1
  THEN [a EXCEPT !.nombre_chevauchement = @ + 1]
  ELSE a

\* The loop "for domaine in self.domaines" over the first n domains.
RECURSIVE boucle_categories(_, _, _)
boucle_categories(a, doms, n) ==
  IF n = 0 THEN a
  ELSE maj_compteurs(boucle_categories(a, doms, n - 1), categories(doms[n]))

\* sum(1 for d in self.domaines if any(mc in d for mc in mots_cles))
nombre_mot_cle(doms, mots_cles) ==
  Cardinality({i \in DOMAIN doms : un_mot_cle(doms[i], mots_cles)})

\* sum(1 for d in self.domaines if '.pref.' in d)
nombre_prefecture(doms) ==
  Cardinality({i \in DOMAIN doms : contains(doms[i], <<46,112,114,101,102,46>> (* '.pref.' *))})

\* sum(1 for d in self.domaines if 'developpement-durable' in d)
nombre_developpement(doms) ==
  Cardinality({i \in DOMAIN doms : contains(doms[i], <<100,101,118,101,108,111,112,112,101,109,101,110,116,45,100,117,114,97,98,108,101>> (* 'developpement-durable' *))})

\* max(doms, key=len): the first element of maximal length
plus_long(doms) ==
  IF Len(doms) = 0 THEN <<>>
  ELSE doms[CHOOSE i \in DOMAIN doms :
              /\ \A j \in DOMAIN doms : Len(doms[j]) <= Len(doms[i])
              /\ \A j \in 1..(i - 1) : Len(doms[j]) < Len(doms[i])]

\* min(doms, key=len): the first element of minimal length
plus_court(doms) ==
  IF Len(doms) = 0 THEN <<>>
  ELSE doms[CHOOSE i \in DOMAIN doms :
              /\ \A j \in DOMAIN doms : Len(doms[j]) >= Len(doms[i])
              /\ \A j \in 1..(i - 1) : Len(doms[j]) > Len(doms[i])]

RECURSIVE somme_longueurs(_, _)
somme_longueurs(doms, n) ==
  IF n = 0 THEN 0 ELSE somme_longueurs(doms, n - 1) + Len(doms[n])

\* round(sum(len(d) for d in doms) / len(doms), 1), in tenths.  The quotient is
\* a binary float: when it lies exactly half way between two tenths it is
\* exact only for a fraction of .25 or .75, where round() goes to the even
\* tenth; elsewhere the float is a hair off the half and either tenth can
\* come out.
longueurs_moyennes(doms) ==
  IF Len(doms) = 0 THEN {0}
  ELSE LET s == 10 * somme_longueurs(doms, Len(doms))
           n == Len(doms)
           t == s \div n
           r == s % n
       IN IF 2 * r < n THEN {t}
          ELSE IF 2 * r > n THEN {t + 1}
          ELSE IF t % 5 = 2 THEN {IF t % 2 = 0 THEN t ELSE t + 1}
          ELSE {t, t + 1}

\* Faulty variant of manquants_critiques: the test is made against the first
\* accepted domain only.
manquants_critiques_premier(doms) ==
  SelectSeq(domaines_critiques, LAMBDA d : Len(doms) = 0 \/ d # doms[1])

\* [d for d in domaines_critiques if d not in self.domaines]
manquants_critiques(doms) ==
  SelectSeq(domaines_critiques, LAMBDA d : d \notin Range(doms))

\* The dict analyser() returns; moyenne is the rounded mean length in tenths.
resultat_analyse(brutes, doms, moyenne) ==
  LET debut ==
        [total_domaines |-> Len(doms),
         lignes_brutes |-> brutes,
         nombre_manquant |-> brutes - Len(doms),
         ministere_uniquement |-> 0,
         region_uniquement |-> 0,
         service_uniquement |-> 0,
         prefecture_uniquement |-> 0,
         nombre_chevauchement |-> 0,
         nombre_ministere |-> 0,
         nombre_region |-> 0,
         nombre_service |-> 0,
         nombre_prefecture |-> 0,
         nombre_developpement |-> 0,
         domaine_plus_long |-> plus_long(doms),
         domaine_plus_court |-> plus_court(doms),
         longueur_moyenne |-> moyenne,
         manquants_critiques |-> <<>>]
      boucle_faite == boucle_categories(debut, doms, Len(doms))
  IN [boucle_faite EXCEPT
        !.nombre_ministere = nombre_mot_cle(doms, mots_cles_ministere),
        !.nombre_region = nombre_mot_cle(doms, mots_cles_region),
        !.nombre_service = nombre_mot_cle(doms, mots_cles_service),
        !.nombre_prefecture = nombre_prefecture(doms),
        !.nombre_developpement = nombre_developpement(doms),
        !.manquants_critiques = manquants_critiques(doms)]

(***************************************************************************)
(* generer_rapport                                                         *)
(***************************************************************************)
\* The content of the report: the figures of the analysis, the first 10
\* rejected lines and how many more there are, the first 10 domains.  The
\* date line is left out.
generer_rapport(a, manquants, doms) ==
  [analyse |-> a,
   critiques |-> a.manquants_critiques,
   exemples |-> SubSeq(manquants, 1, Min(10, Len(manquants))),
   supplementaires |-> IF Len(manquants) > 10 THEN Len(manquants) - 10 ELSE 0,
   premiers |-> SubSeq(doms, 1, Min(10, Len(doms)))]

(***************************************************************************)
(* The input lines the model draws the file from.                          *)
(***************************************************************************)
LignesPossibles ==
  { <<101,99,111,110,111,109,105,101,46,103,111,117,118,46,102,114>>,          \* 'economie.gouv.fr'
    <<87,87,87,46,83,97,110,116,101,46,71,111,117,118,46,70,114,32,32>>,       \* 'WWW.Sante.Gouv.Fr  '
    <<110,111,116,97,100,111,109,97,105,110>>,                \* 'notadomain'
    <<35,32,99,111,109,109,101,110,116,32,108,105,110,101>>,            \* '# comment line'
    <<32,32>>,                        \* '  '
    <<119,119,119,119,46,119,119,46,102,114>>,                \* 'wwww.ww.fr'
    <<101,99,111,108,111,103,105,101,46,115,97,110,116,101,46,103,111,117,118,46,102,114>>,    \* 'ecologie.sante.gouv.fr'
    <<119,119,119,46,100,101,118,101,108,111,112,112,101,109,101,110,116,45,100,117,114,97,98,108,101,46,103,111,117,118,46,102,114,9,77,105,110,105,115,116,101,114,101>>,  \* 'www.developpement-durable.gouv.fr\tMinistere'
    <<98,114,101,116,97,103,110,101,46,112,114,101,102,46,103,111,117,118,46,102,114,32,80,114,101,102,101,99,116,117,114,101>>,  \* 'bretagne.pref.gouv.fr Prefecture'
    <<115,101,114,118,105,99,101,45,112,117,98,108,105,99,46,102,114>>,         \* 'service-public.fr'
    <<35,115,105,116,101,46,102,114>>,                  \* '#site.fr'
    <<105,109,1,112,111,116,115,46,103,111,117,118,46,102,114>>,        \* 'im\x01pots.gouv.fr'
    <<117,110,101,32,108,105,103,110,101,32,115,97,110,115,32,100,111,109,97,105,110,101,32,113,117,105,32,99,111,109,112,116,101,32,112,108,117,115,32,100,101,32,99,105,110,113,117,97,110,116,101,32,99,97,114,97,99,116,101,114,101,115>> }  \* 'une ligne sans domaine qui compte plus de cinquante caracteres'

Fichiers == UNION {[1..n -> LignesPossibles] : n \in 0..MaxLignes}

(***************************************************************************)
(* The object and its methods.  avant is the console before the call.      *)
(***************************************************************************)
\* AnalyseurDomainesGouvFr.__init__
init_objet ==
  /\ lignes_brutes = 0
  /\ domaines = <<>>
  /\ domaines_manquants = <<>>

\* The environment and the state before main() or any method has run.
InitCommun ==
  /\ fichier \in Fichiers
  /\ existe \in BOOLEAN
  /\ lisible \in {existe, FALSE}
  /\ init_objet
  /\ analyse = <<>>
  /\ nb_chargements = 0
  /\ derniere = "__init__"
  /\ pc = "debut"
  /\ console = <<>>
  /\ rapport_affiche = <<>>
  /\ fichier_sortie = <<>>
  /\ code_sortie = <<>>

charger_domaines(avant) ==
  IF lisible
  THEN LET acc == boucle(fichier, Len(fichier), domaines_manquants)
       IN /\ lignes_brutes' = compter_lignes_brutes(fichier)
          /\ domaines_manquants' = acc.manquants
          /\ domaines' = sorted(acc.ensemble)
          /\ nb_chargements' = nb_chargements + 1
          /\ derniere' = "charger_domaines"
          /\ console' = avant
          /\ code_sortie' = code_sortie
  ELSE /\ console' = Append(avant, "erreur_lecture")
       /\ code_sortie' = <<1>>
       /\ UNCHANGED <<lignes_brutes, domaines, domaines_manquants, nb_chargements,
                      derniere>>

analyser(avant) ==
  /\ \E moyenne \in longueurs_moyennes(domaines) :
       analyse' = <<resultat_analyse(lignes_brutes, domaines, moyenne)>>
  /\ derniere' = "analyser"
  /\ console' = avant

\* Faulty variant of sauvegarder_rapport_complet: a write failure ends the
\* process with status 1.
sauvegarder_propage(avant) ==
  /\ IF inscriptible
     THEN /\ fichier_sortie' =
               <<[rapport |-> generer_rapport(analyse[1], domaines_manquants, domaines),
                  domaines |-> domaines]>>
          /\ console' = Append(avant, "rapport_sauvegarde")
          /\ code_sortie' = code_sortie
     ELSE /\ fichier_sortie' = fichier_sortie
          /\ console' = Append(avant, "erreur_sauvegarde")
          /\ code_sortie' = <<1>>
  /\ derniere' = "sauvegarder_rapport_complet"

\* The write fails as a whole: nothing of the report reaches the file.  The
\* exception is caught and printed, the process goes on.
sauvegarder_rapport_complet(avant) ==
  /\ IF inscriptible
     THEN /\ fichier_sortie' =
               <<[rapport |-> generer_rapport(analyse[1], domaines_manquants, domaines),
                  domaines |-> domaines]>>
          /\ console' = Append(avant, "rapport_sauvegarde")
     ELSE /\ fichier_sortie' = fichier_sortie
          /\ console' = Append(avant, "erreur_sauvegarde")
  /\ code_sortie' = code_sortie
  /\ derniere' = "sauvegarder_rapport_complet"

(***************************************************************************)
(* Spec: the class used as a library, its methods called in any order on   *)
(* one object over an unchanged file.                                      *)
(***************************************************************************)
Init == InitCommun /\ inscriptible = TRUE

Charger ==
  /\ code_sortie = <<>>
  /\ nb_chargements < MaxChargements
  /\ charger_domaines(console)
  /\ UNCHANGED <<fichier, existe, lisible, inscriptible, analyse, pc,
                 rapport_affiche, fichier_sortie>>

Analyser ==
  /\ code_sortie = <<>>
  /\ analyser(console)
  /\ UNCHANGED <<fichier, existe, lisible, inscriptible, lignes_brutes, domaines,
                 domaines_manquants, nb_chargements, pc, rapport_affiche,
                 fichier_sortie, code_sortie>>

Next == Charger \/ Analyser

Spec == Init /\ [][Next]_vars

(***************************************************************************)
(* SpecMain: one run of main().                                            *)
(***************************************************************************)
InitMain == InitCommun /\ inscriptible \in BOOLEAN

\* if not Path("sitesgouv.txt").exists(): ... sys.exit(1); else the object is built
MainVerifier ==
  /\ pc = "debut"
  /\ IF existe
     THEN /\ console' = Append(console, "analyse_en_cours")
          /\ pc' = "charger"
          /\ code_sortie' = code_sortie
     ELSE /\ console' = Append(console, "introuvable")
          /\ pc' = "fin"
          /\ code_sortie' = <<1>>
  /\ lignes_brutes' = 0
  /\ domaines' = <<>>
  /\ domaines_manquants' = <<>>
  /\ UNCHANGED <<fichier, existe, lisible, inscriptible, analyse, nb_chargements,
                 derniere, rapport_affiche, fichier_sortie>>

MainCharger ==
  /\ pc = "charger"
  /\ charger_domaines(Append(console, "chargement"))
  /\ pc' = IF code_sortie' = <<>> THEN "analyser" ELSE "fin"
  /\ UNCHANGED <<fichier, existe, lisible, inscriptible, analyse, rapport_affiche,
                 fichier_sortie>>

MainAnalyser ==
  /\ pc = "analyser"
  /\ analyser(Append(console, "analyse"))
  /\ pc' = "afficher"
  /\ UNCHANGED <<fichier, existe, lisible, inscriptible, lignes_brutes, domaines,
                 domaines_manquants, nb_chargements, rapport_affiche, fichier_sortie,
                 code_sortie>>

MainAfficher ==
  /\ pc = "afficher"
  /\ rapport_affiche' = <<generer_rapport(analyse[1], domaines_manquants, domaines)>>
  /\ console' = Append(console, "rapport")
  /\ derniere' = "generer_rapport"
  /\ pc' = "sauvegarder"
  /\ UNCHANGED <<fichier, existe, lisible, inscriptible, lignes_brutes, domaines,
                 domaines_manquants, analyse, nb_chargements, fichier_sortie,
                 code_sortie>>

MainSauvegarder ==
  /\ pc = "sauvegarder"
  /\ sauvegarder_rapport_complet(Append(console, "sauvegarde"))
  /\ pc' = IF code_sortie' = <<>> THEN "resultat" ELSE "fin"
  /\ UNCHANGED <<fichier, existe, lisible, inscriptible, lignes_brutes, domaines,
                 domaines_manquants, analyse, nb_chargements, rapport_affiche>>

\* The last prints; main() returns and the process ends with status 0.
MainResultat ==
  /\ pc = "resultat"
  /\ console' = console \o <<"termine">>
                  \o (IF analyse[1].nombre_manquant > 0 THEN <<"details">> ELSE <<>>)
  /\ code_sortie' = <<0>>
  /\ pc' = "fin"
  /\ UNCHANGED <<fichier, existe, lisible, inscriptible, lignes_brutes, domaines,
                 domaines_manquants, analyse, nb_chargements, derniere,
                 rapport_affiche, fichier_sortie>>

NextMain ==
  \/ MainVerifier
  \/ MainCharger
  \/ MainAnalyser
  \/ MainAfficher
  \/ MainSauvegarder
  \/ MainResultat

SpecMain == InitMain /\ [][NextMain]_vars

(***************************************************************************)
(* Properties.                                                             *)
(***************************************************************************)
\* The domain a line yields, as the loader computes it.
domaine_de(brute) == normaliser(partie_domaine(strip(brute)))

\* The line is not blank and its domain is accepted.
ligne_acceptee(brute) ==
  Len(strip(brute)) > 0 /\ tld_accepte(domaine_de(brute))

\* C1: after charger_domaines no accepted domain contains 'www.'.
C1_SansWww ==
  \A i \in DOMAIN domaines : ~contains(domaines[i], <<119,119,119,46>> (* 'www.' *))

\* C2: after any number n >= 1 of loads of the same file, the accepted
\* sequence and the rejection list equal their values after the first load.
C2_Idempotent ==
  nb_chargements >= 1 =>
    LET une_fois == boucle(fichier, Len(fichier), <<>>)
    IN /\ domaines = sorted(une_fois.ensemble)
       /\ domaines_manquants = une_fois.manquants

\* The four primary categories a domain belongs to.
primaires(d) ==
  {c \in {"ministere", "region", "service", "prefecture"} :
     \/ c = "ministere" /\ un_mot_cle(d, mots_cles_ministere)
     \/ c = "region" /\ un_mot_cle(d, mots_cles_region)
     \/ c = "service" /\ un_mot_cle(d, mots_cles_service)
     \/ c = "prefecture" /\ contains(d, <<46,112,114,101,102,46>> (* '.pref.' *))}

\* The categories among the five a domain belongs to.
cinq(d) ==
  primaires(d) \cup
  (IF contains(d, <<100,101,118,101,108,111,112,112,101,109,101,110,116,45,100,117,114,97,98,108,101>> (* 'developpement-durable' *)) \/ contains(d, <<101,99,111,108,111,103,105,101,46>> (* 'ecologie.' *))
   THEN {"environnement"} ELSE {})

\* The counters of the analysis are those of the classification cat, which
\* gives the category set of each accepted domain.
classement_selon(cat) ==
  LET a == analyse[1]
      seul(c) == Cardinality({i \in DOMAIN domaines : cat[i] = {c}})
  IN /\ a.ministere_uniquement = seul("ministere")
     /\ a.region_uniquement = seul("region")
     /\ a.service_uniquement = seul("service")
     /\ a.prefecture_uniquement = seul("prefecture")
     /\ a.nombre_chevauchement =
          Cardinality({i \in DOMAIN domaines : Cardinality(cat[i]) >= 2})

C4_TotalEnvironnement ==
  derniere = "analyser" =>
    analyse[1].nombre_developpement =
      Cardinality({i \in DOMAIN domaines : est_environnement(domaines[i])})

\* The lines of the file that the claim says are recorded.
lignes_rejetees ==
  {i \in DOMAIN fichier :
     /\ Len(strip(fichier[i])) > 0
     /\ ~tld_accepte(domaine_de(fichier[i]))
     /\ ~startswith(strip(fichier[i]), <<35>> (* '#' *))}

\* 'Ligne i: ' + the first 50 characters of the trimmed line + '...'
texte_rejet(i) ==
  LET t == strip(fichier[i])
  IN <<76,105,103,110,101,32>> (* 'Ligne ' *) \o str_int(i) \o <<58,32>> (* ': ' *)
       \o [k \in 1..Min(50, Len(t)) |-> t[k]] \o <<46,46,46>> (* '...' *)

\* The k-th smallest element of a set of numbers.
kieme(S, k) == CHOOSE i \in S : Cardinality({j \in S : j <= i}) = k

\* The records of one load, in file order.
rejets_attendus ==
  [k \in 1..Cardinality(lignes_rejetees) |-> texte_rejet(kieme(lignes_rejetees, k))]

RECURSIVE repeter(_, _)
repeter(s, n) == IF n = 0 THEN <<>> ELSE repeter(s, n - 1) \o s

\* C5: each charger_domaines appends one record 'Ligne i: ' + first 50
\* characters of the trimmed line + '...' for exactly the lines whose trimmed
\* text is non-empty, whose normalized token ends with none of the six
\* suffixes and that do not start with '#', i counting every line of the
\* file, in file order.
C5_Rejets ==
  domaines_manquants = repeter(rejets_attendus, nb_chargements)

\* One load of a file whose first line is a comment and whose second line is
\* a rejected line of more than 50 characters, recorded as line 2.
C5_Temoin ==
  /\ nb_chargements = 1
  /\ Len(fichier) = 2
  /\ startswith(strip(fichier[1]), <<35>> (* '#' *))
  /\ ~ligne_acceptee(fichier[1])
  /\ Len(strip(fichier[2])) > 50
  /\ Len(domaines_manquants) = 1
  /\ Len(domaines_manquants[1]) = 6 + 1 + 2 + 50 + 3
  /\ domaines_manquants[1][7] = 50

\* a comes strictly before b in code point order.
avant_strict(a, b) ==
  \E k \in 1..(Len(b)) :
    /\ k <= Len(a) + 1
    /\ \A j \in 1..(k - 1) : a[j] = b[j]
    /\ (k = Len(a) + 1 \/ a[k] < b[k])

\* C6: the accepted sequence is strictly ascending in code point order, so
\* it holds no duplicate, whatever the order and multiplicity of the lines.
C6_TrieStrict ==
  \A i \in 1..(Len(domaines) - 1) : avant_strict(domaines[i], domaines[i + 1])

\* Two accepted lines in descending order were loaded and sorted.
C6_Temoin ==
  /\ nb_chargements >= 1
  /\ Len(fichier) = 2
  /\ Len(domaines) = 2
  /\ domaines[1] = domaine_de(fichier[2])
  /\ domaines[2] = domaine_de(fichier[1])

\* The steps of main() the console shows, in order.
etapes == SelectSeq(console, LAMBDA m : m \in {"chargement", "analyse", "rapport", "sauvegarde"})

\* C7: a run of main() ends with status 1 exactly when the input file is
\* missing or cannot be read, and then before any analysis, report or write
\* attempt; every other run goes load, analyse, print, write attempt and
\* ends with status 0, a write failure being reported and not propagated.
C7_CodeSortie ==
  /\ pc # "fin" => code_sortie = <<>>
  /\ pc = "fin" =>
       /\ code_sortie \in {<<0>>, <<1>>}
       /\ code_sortie = <<1>> <=> (~existe \/ ~lisible)
       /\ code_sortie = <<1>> =>
            /\ analyse = <<>>
            /\ rapport_affiche = <<>>
            /\ fichier_sortie = <<>>
            /\ Range(console) \cap {"analyse", "rapport", "sauvegarde"} = {}
       /\ code_sortie = <<0>> =>
            /\ etapes = <<"chargement", "analyse", "rapport", "sauvegarde">>
            /\ analyse # <<>>
            /\ rapport_affiche # <<>>
            /\ inscriptible => fichier_sortie # <<>>
            /\ ~inscriptible => "erreur_sauvegarde" \in Range(console)

\* A run with a rejected line and a failed write ended with status 0.
C7_Temoin ==
  /\ pc = "fin"
  /\ code_sortie = <<0>>
  /\ ~inscriptible
  /\ Len(domaines_manquants) > 0
  /\ "erreur_sauvegarde" \in Range(console)

\* The position of an entry in the fixed list.
rang_critique(d) == CHOOSE p \in DOMAIN domaines_critiques : domaines_critiques[p] = d

\* C8: manquants_critiques is the fixed 15-item list filtered to the entries
\* absent from the accepted set, in the order of the fixed list: only entries
\* of the list, none that is accepted, every absent one, none repeated.
C8_CritiquesManquants ==
  derniere = "analyser" =>
    LET m == analyse[1].manquants_critiques
    IN /\ Len(domaines_critiques) = 15
       /\ \A k \in DOMAIN m :
            m[k] \in Range(domaines_critiques) /\ m[k] \notin Range(domaines)
       /\ \A d \in Range(domaines_critiques) :
            d \notin Range(domaines) => d \in Range(m)
       /\ \A j, k \in DOMAIN m :
            j < k => m[j] # m[k] /\ rang_critique(m[j]) < rang_critique(m[k])

\* Two critical domains were accepted and the 13 others are reported.
C8_Temoin ==
  /\ derniere = "analyser"
  /\ nb_chargements >= 1
  /\ Cardinality(Range(domaines) \cap Range(domaines_critiques)) = 2
  /\ Len(analyse[1].manquants_critiques) = 13

\* C9: the four '_uniquement' counters plus nombre_chevauchement never
\* exceed total_domaines.
C9_SommeBornee ==
  analyse # <<>> =>
    LET a == analyse[1]
    IN a.ministere_uniquement + a.region_uniquement + a.service_uniquement
         + a.prefecture_uniquement + a.nombre_chevauchement <= a.total_domaines

\* Two domains were analysed, one in one category only and one in several.
C9_Temoin ==
  /\ analyse # <<>>
  /\ analyse[1].total_domaines = 2
  /\ analyse[1].ministere_uniquement = 1
  /\ analyse[1].nombre_chevauchement = 1

\* C10: after exactly one load on a fresh object and then analyser,
\* 0 <= total_domaines <= lignes_brutes, nombre_manquant is not negative and
\* there are at most nombre_manquant rejection records.
C10_Comptes ==
  (derniere = "analyser" /\ nb_chargements = 1) =>
    LET a == analyse[1]
    IN /\ 0 <= a.total_domaines
       /\ a.total_domaines <= a.lignes_brutes
       /\ a.nombre_manquant = a.lignes_brutes - a.total_domaines
       /\ a.nombre_manquant >= 0
       /\ Len(domaines_manquants) <= a.nombre_manquant

\* One load of a rejected line and a comment line: two lines not treated,
\* one record.
C10_Temoin ==
  /\ derniere = "analyser"
  /\ nb_chargements = 1
  /\ analyse[1].nombre_manquant = 2
  /\ Len(domaines_manquants) = 1

====
